---- MODULE Spec2Model ----
(***************************************************************************)
(* Claim management pipeline: Downloader -> Extractor -> Creator ->        *)
(* Dispatcher / Archiver.  The stages share the document table of the      *)
(* database, the customer mailbox, the working folders and the ERP.        *)
(***************************************************************************)
EXTENDS Integers, Sequences, FiniteSets, TLC

(* ---------------------------- bounds ----------------------------------- *)
MaxMails == 2
MaxCases == 3
NJobs == 2

Docs == {"B"}
MailIds == 1 .. MaxMails
Amounts == {1, 2}
CaseAmounts == {2, 3}

(* ---------------------- names used by the program ---------------------- *)
IGNORE_ALREADY_EXISTING == "IGNORE_ALREADY_EXISTING"

REGISTERED == "document_registration_success"

SkipStates_none == {}

SkipStates == {"completed", "done", "duplicate"}

(* The statuses the application configuration gives for a dispatched      *)
(* e-mail (processing -> mail_states).                                     *)
mail_states ==
    [mail_extractionerror_moved |-> "mail_extractionerror_moved",
     mail_completed_moved |-> "mail_completed_moved",
     mail_failed_moved |-> "mail_failed_moved",
     mail_duplicate_moved |-> "mail_duplicate_moved",
     mail_case_unmatched_moved |-> "mail_case_unmatched_moved"]

MailMovedStates == {mail_states[k] : k \in DOMAIN mail_states}

Rule == [threshold |-> 2, tolerance |-> 1]

VARIABLES mail, db, files, cases, notifs, doc, last,
          job, phase, steps, attempt, waited, outcome, gaveUp,
          lock_files, stage, n_left, busy,
          given, got

vars == <<mail, db, files, cases, notifs, doc, last,
          job, phase, steps, attempt, waited, outcome, gaveUp,
          lock_files, stage, n_left, busy,
          given, got>>

pipeVars == <<mail, db, files, cases, notifs, doc, last>>
retryVars == <<job, phase, steps, attempt, waited, outcome, gaveUp>>
runVars == <<lock_files, stage, n_left, busy>>
callVars == <<given, got>>

(* ------------------------- document profiles --------------------------- *)
Profiles == [tx : {"ZQM", "QM", "DMS"}, ref : {"account", "document"},
             bahag : BOOLEAN, amount : Amounts]

ValidProfile(p) == (p.tx = "QM") \/ (p.ref = "account")

(* A dispute case as DMS holds it right after the claim dispute is posted. *)
NewCase(title, amount) ==
    [title |-> title, amount |-> amount, status |-> 1, root |-> "",
     sales |-> {}, attached |-> FALSE, archived |-> FALSE]

NoGiveUp == [n |-> 0, secs |-> 0]

(* No e-mail yet; hashed tells that the hash line of the Downloader is in  *)
(* the body of the e-mail.                                                *)
NoMail == [doc |-> "B", ctrl |-> "", folder |-> "none", hashed |-> FALSE]

(* No document is being worked on by the lock handling loops. *)
NoRetry ==
    /\ job = 1
    /\ phase = "idle"
    /\ steps = 0
    /\ attempt = 0
    /\ waited = 0
    /\ outcome = [j \in 1 .. NJobs |-> "pending"]
    /\ gaveUp = [j \in 1 .. NJobs |-> NoGiveUp]

(* No stage is running and no cancel file lies in the control directory. *)
NoRun ==
    /\ lock_files = {}
    /\ stage = "none"
    /\ n_left = 0
    /\ busy = FALSE

(* No function of the compiler or of the parsers has been called: given  *)
(* holds the arguments of a call and got what the call gave back.         *)
NoCall ==
    /\ given = [fn |-> "none"]
    /\ got = [fn |-> "none"]

(* The most recent step: the stage, the message and record it handled,    *)
(* the branch taken, the exception raised, the lines written to the       *)
(* e-mail, the ERP calls made and whether the file move went through.     *)
NoLast == [op |-> "none", msg |-> 0, rec |-> 0, act |-> "none",
           exc |-> "none", notes |-> <<>>, calls |-> <<>>, moved |-> FALSE,
           tried |-> <<>>]

Init ==
    /\ mail = [m \in MailIds |-> NoMail]
    /\ db = <<>>
    /\ files = {}
    /\ doc \in {f \in [Docs -> Profiles] : \A d \in Docs : ValidProfile(f[d])}
    /\ cases \in {<<>>} \cup {<<NewCase("B", a)>> : a \in CaseAmounts}
    /\ notifs \in {<<>>} \cup
                 {<<[ref |-> "B", by_document |-> TRUE,
                     prior |-> "over_threshold", dlfl |-> FALSE]>> :
                    x \in {d \in Docs : doc[d].tx = "QM" /\
                                         doc[d].ref = "document"}}
    /\ last = NoLast
    /\ NoRetry
    /\ NoRun
    /\ NoCall

(* ------------------------------ mailbox -------------------------------- *)
(* A customer e-mail carrying document d arrives in the customer folder. *)
MailArrives(m, d, ctrl) ==
    /\ mail[m].folder = "none"
    /\ \A k \in MailIds : k < m => mail[k].folder # "none"
    /\ mail' = [mail EXCEPT ![m] = [doc |-> d, ctrl |-> ctrl,
                                    folder |-> "inbox",
                                    hashed |-> FALSE]]
    /\ last' = [NoLast EXCEPT !.op = "arrive"]
    /\ UNCHANGED <<db, files, cases, notifs, doc, retryVars, runVars, callVars>>

RecsWithHash_fresh_only(h) ==
    {i \in 1 .. Len(db) : db[i].hash = h /\ db[i].status = REGISTERED}

(* ----------------------------- Downloader ------------------------------ *)
(* The statuses of a document whose claim has been settled in the ERP.    *)
(* The field reseen of a record is history only: it tells that the        *)
(* Downloader has put the document back in the queue from such a status.  *)
Handled == {"completed", "duplicate", mail_states.mail_completed_moved,
            mail_states.mail_duplicate_moved}

RecsWithHash(h) == {i \in 1 .. Len(db) : db[i].hash = h}

create_record(m, ctrl, h) ==
    Append(db, [hash |-> h, status |-> REGISTERED, message_id |-> m,
                subfolder |-> "customer", control |-> ctrl, link |-> "",
                case_id |-> 0, reseen |-> FALSE])

(* Body of the message loop of Downloader._download_emails_data for one    *)
(* message m; the result holds the new mailbox, table and folders.         *)
DownloadResult(m, saveRes, catOk, renameOk) ==
    LET d == mail[m].doc
        ctrl == mail[m].ctrl
        recs == RecsWithHash(d)
        hashNote == IF mail[m].hashed THEN <<>> ELSE <<"INFO">>
        mailH == [mail EXCEPT ![m].hashed = TRUE]
        stop(ml, dbv, notes, act) ==
            [mail |-> ml, db |-> dbv, files |-> files, notes |-> notes,
             act |-> act, rec |-> 0]
        finish(ml, dbv, r, act) ==
            IF ~renameOk
            THEN [mail |-> ml, db |-> dbv, files |-> files,
                  notes |-> hashNote \o <<"ERROR">>, act |-> "rename_error",
                  rec |-> r]
            ELSE [mail |-> [ml EXCEPT ![m].folder = "ready"],
                  db |-> [dbv EXCEPT ![r].link = "input"],
                  files |-> files \cup {<<"input", r, "pdf">>},
                  notes |-> hashNote \o <<"INFO">>, act |-> act, rec |-> r]
    IN  IF saveRes = "invalid"
        THEN stop([mail EXCEPT ![m].folder = "failed"], db, <<"ERROR">>,
                  "invalid_attachments")
        ELSE IF saveRes = "error"
        THEN stop(mail, db, <<"ERROR">>, "save_error")
        ELSE IF ~catOk
        THEN stop([mail EXCEPT ![m].folder = "failed"], db, <<"ERROR">>,
                  "category_error")
        ELSE IF Cardinality(recs) > 1
        THEN stop(mailH, db, hashNote \o <<"ERROR">>, "ambiguous_hash")
        ELSE IF recs = {}
        THEN finish(mailH, create_record(m, ctrl, d), Len(db) + 1,
                    "registered")
        ELSE
          LET r == CHOOSE i \in recs : TRUE
              prev_status == db[r].status
              prev_msg_id == db[r].message_id
              db1 == [db EXCEPT ![r].subfolder = "customer"]
              db2 == IF ctrl = IGNORE_ALREADY_EXISTING
                     THEN [db1 EXCEPT ![r].control = ctrl] ELSE db1
              db3 == [db2 EXCEPT ![r].status = REGISTERED,
                                 ![r].message_id = m,
                                 ![r].reseen = @ \/ prev_status \in Handled]
          IN  IF ctrl # IGNORE_ALREADY_EXISTING /\ prev_status \in SkipStates
              THEN [stop([mailH EXCEPT ![m].folder = "done"], db1, hashNote,
                         "skipped") EXCEPT !.rec = r]
              ELSE IF prev_msg_id # m /\ mail[prev_msg_id].folder = "deleted"
              THEN [stop(mailH, db3, hashNote, "aborted") EXCEPT !.rec = r]
              ELSE finish(IF prev_msg_id # m
                          THEN [mailH EXCEPT ![prev_msg_id].folder = "deleted"]
                          ELSE mailH,
                          db3, r, "requeued")

Download(m, saveRes, catOk, renameOk) ==
    /\ mail[m].folder = "inbox"
    /\ LET res == DownloadResult(m, saveRes, catOk, renameOk)
       IN  /\ mail' = res.mail
           /\ db' = res.db
           /\ files' = res.files
           /\ last' = [NoLast EXCEPT !.op = "download", !.msg = m,
                                     !.rec = res.rec, !.act = res.act,
                                     !.notes = res.notes]
    /\ UNCHANGED <<cases, notifs, doc, retryVars, runVars, callVars>>

(* ------------------------------ Extractor ------------------------------ *)
FilesOf(dir, r) == {f \in files : f[1] = dir /\ f[2] = r}

MessageFound(m) == mail[m].folder \notin {"none", "deleted"}

(* Body of the file loop of Extractor.provide for the PDF of record r in  *)
(* the input folder; ok tells whether the extraction went through.         *)
Extract(r, ok) ==
    /\ r \in 1 .. Len(db)
    /\ <<"input", r, "pdf">> \in files
    /\ LET dst == IF ok THEN "upload" ELSE "template_err"
           status == IF ok THEN "extracted" ELSE "extraction_error"
           made == IF ok THEN {<<"input", r, "json">>} ELSE {}
       IN  /\ files' = (files \ FilesOf("input", r)) \cup
                        {<<dst, r, f[3]>> : f \in FilesOf("input", r) \cup made}
           /\ db' = [db EXCEPT ![r].status = status, ![r].link = dst]
           /\ last' = [NoLast EXCEPT
                         !.op = "extract", !.rec = r, !.act = status,
                         !.notes = IF MessageFound(db[r].message_id)
                                   THEN <<IF ok THEN "INFO" ELSE "ERROR">>
                                   ELSE <<>>]
    /\ UNCHANGED <<mail, cases, notifs, doc, retryVars, runVars, callVars>>

(* ------------------------------ Dispatcher ----------------------------- *)
DispatchRules ==
    [extraction_error |->
         [dst_subfolder |-> "failed",
          new_status |-> mail_states.mail_extractionerror_moved],
     completed |->
         [dst_subfolder |-> "done",
          new_status |-> mail_states.mail_completed_moved],
     processing_error |->
         [dst_subfolder |-> "failed",
          new_status |-> mail_states.mail_failed_moved],
     duplicate |->
         [dst_subfolder |-> "done",
          new_status |-> mail_states.mail_duplicate_moved],
     claim_case_unmatched |->
         [dst_subfolder |-> "update_failed",
          new_status |-> mail_states.mail_case_unmatched_moved]]

(* Body of the record loop of Dispatcher.run for record r; moveOk tells    *)
(* whether the mail server carries out the move.                           *)
Dispatch(r, moveOk) ==
    /\ r \in 1 .. Len(db)
    /\ db[r].status \in DOMAIN DispatchRules
    /\ LET rule == DispatchRules[db[r].status]
           m == db[r].message_id
           moved == /\ MessageFound(m)
                    /\ mail[m].folder # rule.dst_subfolder
                    /\ moveOk
       IN  /\ mail' = IF moved
                      THEN [mail EXCEPT ![m].folder = rule.dst_subfolder]
                      ELSE mail
           /\ db' = [db EXCEPT ![r].status = rule.new_status]
           /\ last' = [NoLast EXCEPT
                         !.op = "dispatch", !.rec = r,
                         !.act = IF moved THEN "moved" ELSE "not_moved",
                         !.notes = IF moved THEN <<"G_ROBOT.RFC (INFO)">>
                                   ELSE <<>>]
    /\ UNCHANGED <<files, cases, notifs, doc, retryVars, runVars, callVars>>

(* ------------------------------- Archiver ------------------------------ *)
DocKind(d) == IF doc[d].tx = "DMS" THEN "credit" ELSE "debit"

_should_skip_file(doc_kind, withinRetention) ==
    \/ doc_kind = "debit"
    \/ doc_kind = "credit" /\ withinRetention

(* Archiver.run, started when the PDF of record r waits in the upload     *)
(* folder, which is also the destination folder of the service, and       *)
(* _should_skip_file would let it through.  run calls                      *)
(* self._get_retention_days(cfg["times"]), a function declared without    *)
(* self: the call raises TypeError before the folders are scanned, so     *)
(* _move_files, the only writer of claim_case_unmatched, is never reached *)
(* and the run leaves the table, the folders and the mailbox as they are. *)
Archive(r, withinRetention) ==
    /\ r \in 1 .. Len(db)
    /\ <<"upload", r, "pdf">> \in files
    /\ ~_should_skip_file(DocKind(db[r].hash), withinRetention)
    /\ last' = [NoLast EXCEPT
                  !.op = "archive", !.rec = r, !.act = "not_archived",
                  !.exc = "TypeError"]
    /\ UNCHANGED <<mail, db, files, cases, notifs, doc, retryVars, runVars, callVars>>

(* ------------------------------- Creator ------------------------------- *)
Close(x, y) == x - y <= Rule.tolerance /\ y - x <= Rule.tolerance

(* dms.find_cases: open cases (status 1, 2 or 3) with the searched title,  *)
(* and with the disputed amount within the tolerance when one is given.   *)
(* The amounts are read case by case; a case without an attribute row     *)
(* (archived) makes the search return the empty list at once.             *)
find_cases(title, amount, byAmount) ==
    LET found == {i \in 1 .. Len(cases) :
                    /\ cases[i].title = title
                    /\ cases[i].status \in {1, 2, 3}}
    IN  IF ~byAmount THEN found
        ELSE IF \E i \in found : cases[i].archived THEN {}
        ELSE {i \in found : Close(cases[i].amount, amount)}

_exist_dms_cases_never(d) == FALSE

_exist_dms_cases(d) == find_cases(d, doc[d].amount, TRUE) # {}

_exists_qm_notification(d) ==
    {i \in 1 .. Len(notifs) : notifs[i].ref = d /\ notifs[i].by_document}

_refers_to_account(d) == doc[d].ref = "account"

(* ClaimManager._creditnote_recorded: what the search for the case of a    *)
(* credit note comes to.                                                   *)
_creditnote_recorded(d) ==
    LET records == find_cases(d, 0, FALSE)
        c == CHOOSE i \in records : TRUE
    IN  IF records = {} THEN "no_case"
        ELSE IF Cardinality(records) > 1 THEN "multiple"
        ELSE IF /\ \E n \in cases[c].sales : Close(n, doc[d].amount)
                /\ cases[c].root \in {"L01", "L06", "L14"}
        THEN "recorded"
        ELSE "open"

Decide_no_override_by_account(tx, byAccount, caseFound, notifFound, ctrl, bahag, credit) ==
    LET dup == IF bahag THEN "bahag_error" ELSE "duplicate"
    IN  IF tx = "ZQM"
        THEN IF ~caseFound \/ ctrl = IGNORE_ALREADY_EXISTING
             THEN "create_zqm" ELSE dup
        ELSE IF tx = "QM"
        THEN IF byAccount
             THEN IF ~caseFound THEN "create_qm" ELSE dup
             ELSE IF ~notifFound
                  THEN IF caseFound
                       THEN IF ctrl = IGNORE_ALREADY_EXISTING
                            THEN "create_qm" ELSE dup
                       ELSE "create_qm"
                  ELSE IF ~caseFound THEN "add_case" ELSE dup
        ELSE IF credit \in {"no_case", "multiple"} THEN "warning"
             ELSE IF credit = "recorded" THEN dup
             ELSE "record_credit"

(* The branch that ClaimManager.execute takes for a compiled claim.       *)
Decide(tx, byAccount, caseFound, notifFound, ctrl, bahag, credit) ==
    LET dup == IF bahag THEN "bahag_error" ELSE "duplicate"
    IN  IF tx = "ZQM"
        THEN IF ~caseFound \/ ctrl = IGNORE_ALREADY_EXISTING
             THEN "create_zqm" ELSE dup
        ELSE IF tx = "QM"
        THEN IF byAccount
             THEN IF ~caseFound \/ ctrl = IGNORE_ALREADY_EXISTING
                  THEN "create_qm" ELSE dup
             ELSE IF ~notifFound
                  THEN IF caseFound
                       THEN IF ctrl = IGNORE_ALREADY_EXISTING
                            THEN "create_qm" ELSE dup
                       ELSE "create_qm"
                  ELSE IF ~caseFound THEN "add_case" ELSE dup
        ELSE IF credit \in {"no_case", "multiple"} THEN "warning"
             ELSE IF credit = "recorded" THEN dup
             ELSE "record_credit"

Decision(r) ==
    LET d == db[r].hash
    IN  Decide(doc[d].tx, _refers_to_account(d), _exist_dms_cases(d),
               _exists_qm_notification(d) # {}, db[r].control, doc[d].bahag,
               IF doc[d].tx = "DMS" THEN _creditnote_recorded(d) ELSE "n/a")

modify_case_params_single_hop(status) ==
    (IF status = 2 THEN <<"set_status_2">>
     ELSE IF status = 3 THEN <<"set_status_3">> ELSE <<>>) \o
    <<"change_attributes">>

(* ERP calls of dms.modify_case_params: the status is raised one step at  *)
(* a time from 1, then the remaining attributes are written.  status 0    *)
(* stands for "no status requested".                                      *)
modify_case_params(status) ==
    (IF status >= 2 THEN <<"set_status_2">> ELSE <<>>) \o
    (IF status >= 3 THEN <<"set_status_3">> ELSE <<>>) \o
    <<"change_attributes">>

qm_create_notification_above_only(amount) ==
    <<"create_notification", "post_dispute", "resolve_guid",
      "overwrite_attributes", "create_dispute_task", "complete_dispute_task",
      IF amount <= Rule.threshold THEN "close_notification"
                                  ELSE "create_cs_task">>

(* qm.create_notification: the key under which the priority and the     *)
(* claim coding of the notification are looked up.                        *)
prior_key(amount) ==
    IF amount < Rule.threshold THEN "under_threshold" ELSE "over_threshold"

(* ERP calls of qm.create_notification *)
qm_create_notification(amount) ==
    <<"create_notification", "post_dispute", "resolve_guid",
      "overwrite_attributes", "create_dispute_task", "complete_dispute_task",
      IF amount < Rule.threshold THEN "close_notification"
                                 ELSE "create_cs_task">>

(* ERP calls of zqm.create_notification *)
zqm_create_notification ==
    <<"create_notification", "post_dispute", "resolve_guid",
      "overwrite_attributes", "put_in_progress", "add_task", "complete_task",
      "close_notification">>

(* ERP calls of qm.add_case *)
qm_add_case(amount) ==
    <<"activate_notification", "post_dispute", "create_dispute_task",
      "complete_dispute_task">> \o
    (IF amount >= Rule.threshold THEN <<"create_cs_task">> ELSE <<>>) \o
    <<"resolve_guid", "overwrite_attributes">> \o
    (IF amount < Rule.threshold THEN <<"close_notification">> ELSE <<>>)

(* Root cause and status that the create paths request for a new case.    *)
NewCaseParams(amount) ==
    [root |-> IF amount < Rule.threshold THEN "L14" ELSE "None",
     status |-> IF amount < Rule.threshold THEN 3 ELSE 1,
     sales |-> {}]

(* Root cause, status and sales note that _record_creditnote requests.    *)
CreditParams(c, amount) ==
    [root |-> IF c.amount > Rule.threshold /\ c.root \notin {"L01", "L06"}
              THEN "L01" ELSE "None",
     status |-> IF c.amount - amount < Rule.threshold /\ c.status = 1
                THEN 2 ELSE 0,
     sales |-> {amount}]

Protocol_attach_first(act, amount, kw) ==
    IF act = "create_zqm"
    THEN zqm_create_notification \o <<"attach">> \o modify_case_params(kw.status)
    ELSE IF act = "create_qm"
    THEN qm_create_notification(amount) \o <<"attach">> \o
         modify_case_params(kw.status)
    ELSE IF act = "add_case"
    THEN qm_add_case(amount) \o <<"get_case_parameters", "attach">> \o
         modify_case_params(kw.status)
    ELSE IF act = "record_credit"
    THEN <<"get_case_parameters", "attach">> \o modify_case_params(kw.status)
    ELSE <<>>

(* The ERP calls of one Creator branch, in the order the code makes them. *)
Protocol(act, amount, kw) ==
    IF act = "create_zqm"
    THEN zqm_create_notification \o modify_case_params(kw.status) \o <<"attach">>
    ELSE IF act = "create_qm"
    THEN qm_create_notification(amount) \o modify_case_params(kw.status) \o
         <<"attach">>
    ELSE IF act = "add_case"
    THEN qm_add_case(amount) \o <<"get_case_parameters">> \o
         modify_case_params(kw.status) \o <<"attach">>
    ELSE IF act = "record_credit"
    THEN <<"get_case_parameters">> \o modify_case_params(kw.status) \o
         <<"attach">>
    ELSE <<>>

Oldest(S) == CHOOSE x \in S : \A y \in S : x <= y

Latest(S) == CHOOSE x \in S : \A y \in S : x >= y

add_case_loop_no_retry(cands, notif_id) ==
    [tried |-> <<notif_id>>,
     used |-> IF notifs[notif_id].dlfl THEN 0 ELSE notif_id]

(* The loop of ClaimManager._create_dms_case around qm.add_case: when the *)
(* notification carries the deletion flag, putting it in process raises   *)
(* NotificationDeletedError; the notification is removed from the list    *)
(* and the oldest of the rest is taken; min() of an empty list raises.    *)
(* The result holds the notifications tried, in order, and the one the    *)
(* case was added to (0 when the loop ended with an exception).           *)
RECURSIVE add_case_loop(_, _)
add_case_loop(cands, notif_id) ==
    IF ~notifs[notif_id].dlfl
    THEN [tried |-> <<notif_id>>, used |-> notif_id]
    ELSE LET rest == cands \ {notif_id}
         IN  IF rest = {} THEN [tried |-> <<notif_id>>, used |-> 0]
             ELSE LET more == add_case_loop(rest, Oldest(rest))
                  IN  [tried |-> <<notif_id>> \o more.tried,
                       used |-> more.used]

(* ClaimManager._create_dms_case up to the end of the loop; duplicates is *)
(* the configured choice among several notifications.                     *)
_create_dms_case(cands, duplicates) ==
    IF duplicates = "error" THEN [tried |-> <<>>, used |-> 0]
    ELSE add_case_loop(cands, IF duplicates = "first" THEN Oldest(cands)
                              ELSE Latest(cands))

(* The calls that went through when the call named failCall raises.       *)
Executed(full, failCall) ==
    LET hits == {i \in 1 .. Len(full) : full[i] = failCall}
        first == IF hits = {} THEN Len(full) + 1
                 ELSE CHOOSE i \in hits : \A j \in hits : i <= j
    IN  SubSeq(full, 1, first - 1)

(* What one ERP call does to a dispute case. *)
ApplyCall(c, call, kw) ==
    IF call = "set_status_2"
    THEN [c EXCEPT !.status = 2,
                   !.root = IF kw.root = "None" THEN "" ELSE kw.root]
    ELSE IF call = "set_status_3" THEN [c EXCEPT !.status = 3]
    ELSE IF call = "change_attributes"
    THEN [c EXCEPT !.root = IF kw.root # "None" /\ kw.status < 2
                            THEN kw.root ELSE @,
                   !.sales = @ \cup kw.sales]
    ELSE IF call = "attach" THEN [c EXCEPT !.attached = TRUE]
    ELSE c

RECURSIVE ApplyCalls(_, _, _)
ApplyCalls(c, calls, kw) ==
    IF calls = <<>> THEN c
    ELSE ApplyCalls(ApplyCall(c, Head(calls), kw), Tail(calls), kw)

InSeq(x, sq) == \E i \in 1 .. Len(sq) : sq[i] = x

_move_files_status_anyway(dbv, fl, dst, doc_status, r, case_id, moveOk) ==
    LET db1 == IF case_id # 0 THEN [dbv EXCEPT ![r].case_id = case_id]
               ELSE dbv
        mine == {f \in fl : f[1] = "upload" /\ f[2] = r}
    IN  IF ~moveOk
        THEN [db |-> [db1 EXCEPT ![r].status = doc_status], files |-> fl]
        ELSE [db |-> [db1 EXCEPT ![r].status = doc_status, ![r].link = dst],
              files |-> (fl \ mine) \cup {<<dst, r, f[3]>> : f \in mine}]

(* ClaimManager._move_files: store the case id, move the files of the     *)
(* record and store the new status and link; when the move cannot be      *)
(* made the status is left as it is.                                      *)
_move_files(dbv, fl, dst, doc_status, r, case_id, moveOk) ==
    LET db1 == IF case_id # 0 THEN [dbv EXCEPT ![r].case_id = case_id]
               ELSE dbv
        mine == {f \in fl : f[1] = "upload" /\ f[2] = r}
    IN  IF ~moveOk THEN [db |-> db1, files |-> fl]
        ELSE [db |-> [db1 EXCEPT ![r].status = doc_status, ![r].link = dst],
              files |-> (fl \ mine) \cup {<<dst, r, f[3]>> : f \in mine}]

(* Files of the record in the upload folder once a branch has renamed the *)
(* PDF after the case and removed or renamed the rest.                    *)
RenameFiles(r, act) ==
    (files \ FilesOf("upload", r)) \cup
    {<<"upload", r, "case_pdf">>} \cup
    (IF act = "add_case" THEN {<<"upload", r, "case_json">>} ELSE {})

(* Body of the document loop of ClaimManager.execute for the JSON file of *)
(* record r in the upload folder.                                         *)
Create(r, compileOk, failCall, moveOk, duplicates) ==
    /\ r \in 1 .. Len(db)
    /\ <<"upload", r, "json">> \in files
    /\ Len(cases) < MaxCases
    /\ LET d == db[r].hash
           amount == doc[d].amount
           act == IF compileOk THEN Decision(r) ELSE "compile_error"
           c == CHOOSE i \in find_cases(d, 0, FALSE) : TRUE
           kw == IF act = "record_credit" THEN CreditParams(cases[c], amount)
                 ELSE NewCaseParams(amount)
           sel == IF act = "add_case"
                  THEN _create_dms_case(_exists_qm_notification(d), duplicates)
                  ELSE [tried |-> <<>>, used |-> 0]
           full == IF act = "add_case" /\ sel.used = 0 THEN <<>>
                   ELSE Protocol(act, amount, kw)
           done == Executed(full, failCall)
           raised == \/ act \in {"compile_error", "bahag_error"}
                     \/ act = "add_case" /\ sel.used = 0
                     \/ Len(done) < Len(full)
           newCases ==
               IF act = "record_credit"
               THEN [cases EXCEPT ![c] = ApplyCalls(@, done, kw)]
               ELSE IF InSeq("post_dispute", done)
               THEN Append(cases, ApplyCalls(NewCase(d, amount), done, kw))
               ELSE cases
           newNotifs ==
               IF InSeq("create_notification", done)
               THEN Append(notifs, [ref |-> d,
                                    by_document |-> act = "create_qm" /\
                                                    ~_refers_to_account(d),
                                    prior |-> IF act = "create_qm"
                                              THEN prior_key(amount)
                                              ELSE "unused",
                                    dlfl |-> FALSE])
               ELSE notifs
           case_id == IF act = "record_credit" THEN c ELSE Len(cases) + 1
           moved ==
               IF act = "warning" THEN [db |-> db, files |-> files]
               ELSE IF raised
               THEN _move_files(db, files, "failed", "processing_error", r, 0,
                                moveOk)
               ELSE IF act = "duplicate"
               THEN _move_files(db, files, "duplicate", "duplicate", r, 0,
                                moveOk)
               ELSE _move_files(db, RenameFiles(r, act), "done", "completed",
                                r, case_id, moveOk)
       IN  /\ cases' = newCases
           /\ notifs' = newNotifs
           /\ db' = moved.db
           /\ files' = moved.files
           /\ last' = [op |-> "create", msg |-> db[r].message_id, rec |-> r,
                       act |-> act,
                       exc |-> IF act = "warning" THEN "warning"
                               ELSE IF raised THEN "error" ELSE "none",
                       notes |-> IF act = "warning" THEN <<"WARNING">>
                                 ELSE IF raised THEN <<"ERROR">>
                                 ELSE <<"INFO">>,
                       calls |-> done,
                       moved |-> act # "warning" /\ moveOk,
                       tried |-> sel.tried]
    /\ UNCHANGED <<mail, doc, retryVars, runVars, callVars>>

FailCalls == {"none", "create_dispute_task", "change_attributes", "attach"}

Ctrls == {"", IGNORE_ALREADY_EXISTING}

(* ------------------------ pipeline specification ----------------------- *)
Next ==
    \/ \E m \in MailIds, d \in Docs, c \in Ctrls : MailArrives(m, d, c)
    \/ \E m \in MailIds, s \in {"ok", "invalid"} : Download(m, s, TRUE, TRUE)
    \/ \E r \in 1 .. MaxMails, ok \in BOOLEAN : Extract(r, ok)
    \/ \E r \in 1 .. MaxMails, ok \in BOOLEAN : Create(r, ok, "none", TRUE, "first")
    \/ \E r \in 1 .. MaxMails, mv \in BOOLEAN : Dispatch(r, mv)
    \/ \E r \in 1 .. MaxMails, w \in BOOLEAN : Archive(r, w)

Spec == Init /\ [][Next]_vars

(* ---------------------- lock handling specification -------------------- *)
(* The Creator works through its documents one after the other; for each  *)
(* it calls qm._create_task (create paths) and dms.modify_case_params,    *)
(* whose ERP calls may find the notification or the case locked.          *)
n_attempts == 20
n_secs == 3
create_task_n_attempts == 10
wait_to_complete_secs == 4

Exhausted_never(nth, n) == FALSE
Exhausted(nth, n) == nth = n

(* execute: an exception of the handler of one document makes that        *)
(* document a processing error and the run goes on with the next one.     *)
Raise(exhausted, nth, secs) ==
    /\ outcome' = [outcome EXCEPT ![job] = "processing_error"]
    /\ gaveUp' = IF exhausted
                 THEN [gaveUp EXCEPT ![job] = [n |-> nth, secs |-> secs]]
                 ELSE gaveUp
    /\ job' = job + 1
    /\ phase' = "idle"
    /\ steps' = 0
    /\ attempt' = 0
    /\ waited' = 0

(* The handler of the next document starts; a create path first creates   *)
(* the dispute task, the credit path goes straight to the case; status is *)
(* the case status asked of modify_case_params (0 for none).              *)
StartDocument(create, status) ==
    /\ phase = "idle"
    /\ job <= NJobs
    /\ phase' = IF create THEN "create_task" ELSE "modify_case"
    /\ steps' = Len(modify_case_params(status))
    /\ attempt' = 0
    /\ waited' = 0
    /\ UNCHANGED <<job, outcome, gaveUp, pipeVars, runVars, callVars>>

(* One round of the loop of qm._create_task. *)
TaskAttempt(res) ==
    /\ phase = "create_task"
    /\ attempt < create_task_n_attempts
    /\ LET secs == waited + wait_to_complete_secs
       IN  IF res \in {"locked", "does_not_exist"}
           THEN IF Exhausted(attempt + 1, create_task_n_attempts)
                THEN Raise(TRUE, attempt + 1, secs)
                ELSE /\ attempt' = attempt + 1
                     /\ waited' = secs
                     /\ UNCHANGED <<job, phase, steps, outcome, gaveUp>>
           ELSE IF res = "error"
           THEN Raise(FALSE, 0, 0)
           ELSE /\ phase' = "modify_case"
                /\ attempt' = 0
                /\ waited' = 0
                /\ UNCHANGED <<job, steps, outcome, gaveUp>>
    /\ UNCHANGED <<pipeVars, runVars, callVars>>

(* One round of a loop of dms.modify_case_params. *)
CaseAttempt(res) ==
    /\ phase = "modify_case"
    /\ attempt < n_attempts
    /\ LET secs == waited + n_secs
       IN  IF res = "locked"
           THEN IF Exhausted(attempt + 1, n_attempts)
                THEN Raise(TRUE, attempt + 1, secs)
                ELSE /\ attempt' = attempt + 1
                     /\ waited' = secs
                     /\ UNCHANGED <<job, phase, steps, outcome, gaveUp>>
           ELSE IF res = "error"
           THEN Raise(FALSE, 0, 0)
           ELSE IF steps > 1
           THEN /\ steps' = steps - 1
                /\ attempt' = 0
                /\ waited' = 0
                /\ UNCHANGED <<job, phase, outcome, gaveUp>>
           ELSE /\ outcome' = [outcome EXCEPT ![job] = "completed"]
                /\ job' = job + 1
                /\ phase' = "idle"
                /\ steps' = 0
                /\ attempt' = 0
                /\ waited' = 0
                /\ UNCHANGED gaveUp
    /\ UNCHANGED <<pipeVars, runVars, callVars>>

InitRetry ==
    /\ mail = [m \in MailIds |-> NoMail]
    /\ db = <<>>
    /\ files = {}
    /\ cases = <<>>
    /\ notifs = <<>>
    /\ doc = [d \in Docs |-> [tx |-> "QM", ref |-> "document",
                              bahag |-> FALSE, amount |-> 1]]
    /\ last = NoLast
    /\ NoRetry
    /\ NoRun
    /\ NoCall

NextRetry ==
    \/ \E c \in BOOLEAN, st \in {0, 1, 2, 3} : StartDocument(c, st)
    \/ \E res \in {"ok", "locked", "does_not_exist", "error"} : TaskAttempt(res)
    \/ \E res \in {"ok", "locked", "error"} : CaseAttempt(res)

SpecRetry == InitRetry /\ [][NextRetry]_vars /\ WF_vars(NextRetry)

(* ------------------------------------------------------------------------ *)
(* C1: however many e-mails carry a document, in whatever order and with   *)
(* whatever stage steps in between, the table holds at most one record    *)
(* with the hash of the document, and exactly one as soon as the          *)
(* Downloader has taken one of these e-mails past its history check.      *)
C1_OneRecordPerHash ==
    \A d \in Docs :
        LET n == Cardinality({i \in 1 .. Len(db) : db[i].hash = d})
            taken == \E m \in MailIds :
                        /\ mail[m].doc = d
                        /\ mail[m].folder \in {"ready", "done", "deleted",
                                               "update_failed"}
        IN  n <= 1 /\ (taken => n = 1)

C1_Witness ==
    \E m1, m2 \in MailIds :
        /\ m1 # m2
        /\ mail[m1].doc = "B" /\ mail[m2].doc = "B"
        /\ mail[m1].folder \in {"ready", "done", "deleted"}
        /\ mail[m2].folder \in {"ready", "done", "deleted"}
        /\ Cardinality({i \in 1 .. Len(db) : db[i].hash = "B"}) = 1

(* Place of a status in the life cycle of a document. *)
Rank(status) ==
    IF status = REGISTERED THEN 0
    ELSE IF status \in {"extracted", "extraction_error"} THEN 1
    ELSE IF status \in MailMovedStates THEN 3
    ELSE 2

SameOutcome(a, b) ==
    /\ a.status = b.status
    /\ a.control = b.control
    /\ a.link = b.link
    /\ a.case_id = b.case_id

(* C2: when a document whose status is completed, duplicate or one of the *)
(* statuses the Dispatcher sets for these is seen again and no e-mail of  *)
(* it ever carried the control category, the Downloader changes nothing   *)
(* but message id and subfolder, and the Creator makes no ERP write for   *)
(* the document afterwards.                                               *)
C2_SecondPassIsNoOp ==
    [][/\ (/\ last'.op = "download"
           /\ last'.rec \in 1 .. Len(db)
           /\ db[last'.rec].status \in Handled
           /\ db'[last'.rec].control # IGNORE_ALREADY_EXISTING)
          => SameOutcome(db[last'.rec], db'[last'.rec])
       /\ (/\ last'.op = "create"
           /\ db[last'.rec].reseen
           /\ db[last'.rec].control # IGNORE_ALREADY_EXISTING)
          => (last'.calls = <<>> /\ cases' = cases /\ notifs' = notifs)]_vars

(* C5: a step of a stage never lowers the status of a document; only the  *)
(* Downloader, which opens a new cycle by registering the document again, *)
(* is exempt.                                                             *)
C5_StatusMovesForward ==
    [][last'.op # "download" =>
         \A r \in 1 .. Len(db) :
             Rank(db'[r].status) >= Rank(db[r].status)]_vars

(* C6 as stated: a stage that handles a document which is already past    *)
(* the state the stage produces leaves status, categories, link and case  *)
(* id as they are.                                                        *)
PastTarget(op, status) ==
    \/ op = "download" /\ Rank(status) >= 1
    \/ op = "extract" /\ Rank(status) >= 2
    \/ op = "create" /\ Rank(status) >= 3
    \/ op \in {"dispatch", "archive"} /\ Rank(status) >= 3

KnownCases ==
    [title : Docs, amount : CaseAmounts, status : {1, 2},
     root : {"", "L01"}, sales : {{}, {1}, {2}}, attached : {FALSE},
     archived : {FALSE}]

(* Case lists of a debit note that hold an archived case: its attribute   *)
(* row is gone, the case itself still answers the search by title.        *)
ArchivedCase == [NewCase("B", 2) EXCEPT !.archived = TRUE, !.status = 3]

WithArchived ==
    {<<ArchivedCase>>, <<ArchivedCase, NewCase("B", 2)>>,
     <<NewCase("B", 2), ArchivedCase>>}

(* The notifications on file for the invoice or delivery of the document, *)
(* oldest first, some of them marked for deletion.                        *)
KnownNotif(flag) ==
    [ref |-> "B", by_document |-> TRUE, prior |-> "over_threshold",
     dlfl |-> flag]

KnownNotifs ==
    << <<KnownNotif(FALSE)>>, <<KnownNotif(TRUE)>>,
       <<KnownNotif(TRUE), KnownNotif(FALSE)>>,
       <<KnownNotif(FALSE), KnownNotif(TRUE)>>,
       <<KnownNotif(TRUE), KnownNotif(TRUE)>> >>

InitCreator ==
    /\ doc \in {f \in [Docs -> Profiles] : \A d \in Docs : ValidProfile(f[d])}
    /\ \E c \in Ctrls :
          /\ mail = [m \in MailIds |->
                       IF m = 1
                       THEN [NoMail EXCEPT !.ctrl = c, !.folder = "ready",
                                           !.hashed = TRUE]
                       ELSE NoMail]
          /\ db = <<[hash |-> "B", status |-> "extracted", message_id |-> 1,
                     subfolder |-> "customer", control |-> c,
                     link |-> "upload", case_id |-> 0, reseen |-> FALSE]>>
    /\ files = {<<"upload", 1, "pdf">>, <<"upload", 1, "json">>}
    /\ cases \in {<<>>} \cup {<<k>> : k \in KnownCases} \cup
                {<<NewCase("B", 2), NewCase("B", 3)>>} \cup
                {w \in WithArchived : \A d \in Docs : doc[d].tx # "DMS"}
    /\ notifs \in {<<>>} \cup
                 {KnownNotifs[k] :
                    k \in {j \in DOMAIN KnownNotifs :
                              \E d \in Docs : doc[d].tx = "QM" /\
                                               doc[d].ref = "document"}}
    /\ last = NoLast
    /\ NoRetry
    /\ NoRun
    /\ NoCall

Duplicates == {"first", "last", "error"}

NextCreator ==
    \/ \E ok, mv \in BOOLEAN, f \in FailCalls : Create(1, ok, f, mv, "first")
    \/ \E dup \in Duplicates : Create(1, TRUE, "none", TRUE, dup)

SpecCreator == InitCreator /\ [][NextCreator]_vars

(* ------------------------------------------------------------------------ *)
(* What a Creator pass over record r finds in the ERP and in the table,   *)
(* read off the state directly.                                           *)
CaseOnFile(d) ==
    /\ \E i \in 1 .. Len(cases) :
          /\ cases[i].title = d
          /\ cases[i].status \in {1, 2, 3}
          /\ cases[i].amount - doc[d].amount <= Rule.tolerance
          /\ doc[d].amount - cases[i].amount <= Rule.tolerance
    /\ ~\E i \in 1 .. Len(cases) :
          /\ cases[i].title = d
          /\ cases[i].status \in {1, 2, 3}
          /\ cases[i].archived

NotificationOnFile(d) ==
    \E i \in 1 .. Len(notifs) : notifs[i].ref = d /\ notifs[i].by_document

CreditOnFile(d) ==
    LET open == {i \in 1 .. Len(cases) :
                    cases[i].title = d /\ cases[i].status \in {1, 2, 3}}
    IN  IF open = {} THEN "no_case"
        ELSE IF Cardinality(open) > 1 THEN "multiple"
        ELSE IF \E i \in open :
                  /\ cases[i].root \in {"L01", "L06", "L14"}
                  /\ \E n \in cases[i].sales :
                        /\ n - doc[d].amount <= Rule.tolerance
                        /\ doc[d].amount - n <= Rule.tolerance
        THEN "recorded"
        ELSE "open"

Observed(r) ==
    LET d == db[r].hash
    IN  [tx |-> doc[d].tx, byAccount |-> doc[d].ref = "account",
         caseFound |-> CaseOnFile(d), notifFound |-> NotificationOnFile(d),
         override |-> db[r].control = IGNORE_ALREADY_EXISTING,
         bahag |-> doc[d].bahag, credit |-> CreditOnFile(d)]

(* The decision table as stated. *)
StatedTable(o) ==
    CASE o.tx = "ZQM" ->
           IF ~o.caseFound \/ o.override THEN "create_zqm" ELSE "duplicate"
      [] o.tx = "QM" /\ o.byAccount ->
           IF ~o.caseFound THEN "create_qm" ELSE "duplicate"
      [] o.tx = "QM" /\ ~o.byAccount /\ ~o.notifFound /\ ~o.caseFound ->
           "create_qm"
      [] o.tx = "QM" /\ ~o.byAccount /\ ~o.notifFound /\ o.caseFound ->
           IF o.override THEN "create_qm" ELSE "duplicate"
      [] o.tx = "QM" /\ ~o.byAccount /\ o.notifFound /\ ~o.caseFound ->
           "add_case"
      [] o.tx = "QM" /\ ~o.byAccount /\ o.notifFound /\ o.caseFound ->
           "duplicate"
      [] o.tx = "DMS" ->
           IF o.credit = "recorded" THEN "duplicate" ELSE "record_credit"

(* The decision table with the three amendments: the override also holds  *)
(* for a QM claim referenced by account; a credit note with no open case  *)
(* or with several ends in a warning; a duplicate of an issuer whose name *)
(* contains BAHAG is a hard error.                                        *)
AmendedTable(o) ==
    LET row ==
          CASE o.tx = "ZQM" ->
                 IF ~o.caseFound \/ o.override THEN "create_zqm"
                 ELSE "duplicate"
            [] o.tx = "QM" /\ o.byAccount ->
                 IF ~o.caseFound \/ o.override THEN "create_qm"
                 ELSE "duplicate"
            [] o.tx = "QM" /\ ~o.byAccount /\ ~o.notifFound /\ ~o.caseFound ->
                 "create_qm"
            [] o.tx = "QM" /\ ~o.byAccount /\ ~o.notifFound /\ o.caseFound ->
                 IF o.override THEN "create_qm" ELSE "duplicate"
            [] o.tx = "QM" /\ ~o.byAccount /\ o.notifFound /\ ~o.caseFound ->
                 "add_case"
            [] o.tx = "QM" /\ ~o.byAccount /\ o.notifFound /\ o.caseFound ->
                 "duplicate"
            [] o.tx = "DMS" /\ o.credit \in {"no_case", "multiple"} ->
                 "warning"
            [] o.tx = "DMS" /\ o.credit = "recorded" -> "duplicate"
            [] o.tx = "DMS" /\ o.credit = "open" -> "record_credit"
    IN  IF row = "duplicate" /\ o.bahag THEN "bahag_error" ELSE row

C8_AttachIsLast ==
    [][last'.op = "create" =>
         LET calls == last'.calls
             n == Len(calls)
             at == {i \in 1 .. n : calls[i] = "attach"}
         IN  /\ at # {} =>
                  /\ at = {n}
                  /\ \E i \in 1 .. n - 1 : calls[i] = "change_attributes"
                  /\ last'.act \in {"create_zqm", "create_qm", "add_case",
                                    "record_credit"}
             /\ at = {} =>
                  \A i \in 1 .. Len(cases') :
                      cases'[i].attached => (i <= Len(cases) /\
                                             cases[i].attached)
             /\ \A i \in 1 .. Len(cases') :
                  (cases'[i].attached /\ ~(i <= Len(cases) /\
                                           cases[i].attached))
                  => (last'.act = "record_credit" \/
                      cases'[i].status =
                          IF cases'[i].amount < Rule.threshold THEN 3 ELSE 1)
        ]_vars

C8_Witness ==
    /\ last.op = "create"
    /\ last.act = "record_credit"
    /\ last.exc = "none"
    /\ last.calls[Len(last.calls)] = "attach"
    /\ cases[1].attached
    /\ cases[1].sales # {}

(* C9: the ERP steps of a QM create path come in the order: create        *)
(* notification, post claim dispute, resolve the case GUID, overwrite the *)
(* case attributes, create then complete the dispute task, then create    *)
(* the CS task when the amount is at or above the threshold or close the  *)
(* notification when it is below, and attach the PDF last.                *)
C9Step(x) ==
    x \in {"create_notification", "post_dispute", "resolve_guid",
           "overwrite_attributes", "create_dispute_task",
           "complete_dispute_task", "create_cs_task", "close_notification",
           "attach"}

C9Order(amount) ==
    <<"create_notification", "post_dispute", "resolve_guid",
      "overwrite_attributes", "create_dispute_task", "complete_dispute_task",
      IF amount >= Rule.threshold THEN "create_cs_task"
                                  ELSE "close_notification",
      "attach">>

C9_QmCreateOrder ==
    [][(last'.op = "create" /\ last'.act = "create_qm") =>
         LET made == SelectSeq(last'.calls, C9Step)
             order == C9Order(doc[db[last'.rec].hash].amount)
         IN  /\ Len(made) <= Len(order)
             /\ made = SubSeq(order, 1, Len(made))
             /\ last'.exc = "none" => made = order]_vars

C9_Witness ==
    /\ last.op = "create"
    /\ last.act = "create_qm"
    /\ last.exc = "none"
    /\ doc["B"].amount >= Rule.threshold
    /\ \E i \in 1 .. Len(last.calls) : last.calls[i] = "create_cs_task"
    /\ last.calls[Len(last.calls)] = "attach"

CaseBefore(r, act) ==
    LET d == db[r].hash
    IN  IF act = "record_credit"
        THEN cases[CHOOSE i \in find_cases(d, 0, FALSE) : TRUE]
        ELSE NewCase(d, doc[d].amount)

ParamsOf(r, act) ==
    IF act = "record_credit"
    THEN CreditParams(CaseBefore(r, act), doc[db[r].hash].amount)
    ELSE NewCaseParams(doc[db[r].hash].amount)

(* The status writes among the calls: the status of the case before the   *)
(* write and after it.                                                    *)
RECURSIVE StatusWrites(_, _, _)
StatusWrites(c, calls, kw) ==
    IF calls = <<>> THEN <<>>
    ELSE LET n == ApplyCall(c, Head(calls), kw)
         IN  (IF Head(calls) \in {"set_status_2", "set_status_3"}
              THEN <<[from |-> c.status, to |-> n.status]>> ELSE <<>>) \o
             StatusWrites(n, Tail(calls), kw)

(* C11: every status write that a Creator pass sends to the ERP raises    *)
(* the status the case has at that moment by exactly one.                 *)
C11_OneStepAtATime ==
    [][last'.op = "create" =>
         LET w == StatusWrites(CaseBefore(last'.rec, last'.act), last'.calls,
                               ParamsOf(last'.rec, last'.act))
         IN  \A i \in 1 .. Len(w) : w[i].to = w[i].from + 1]_vars

C11_Witness ==
    /\ last.op = "create"
    /\ last.exc = "none"
    /\ InSeq("set_status_2", last.calls)
    /\ InSeq("set_status_3", last.calls)
    /\ cases[Len(cases)].status = 3

(* C12: when a credit note is recorded against a case and the attribute   *)
(* write has gone through, the root cause is L01 if the disputed amount   *)
(* is above the threshold and the root cause was neither L01 nor L06, and *)
(* is as before otherwise; the status is 2 if the disputed amount less    *)
(* the credit is below the threshold and the status was 1, and is as      *)
(* before otherwise; the Status-Sales text holds what it held and the     *)
(* credit amount.                                                         *)
C12_CreditUpdate ==
    [][(/\ last'.op = "create"
        /\ last'.act = "record_credit"
        /\ InSeq("change_attributes", last'.calls))
       => LET d == db[last'.rec].hash
              i == CHOOSE k \in find_cases(d, 0, FALSE) : TRUE
              old == cases[i]
              new == cases'[i]
          IN  /\ new.root = IF /\ old.amount > Rule.threshold
                               /\ old.root \notin {"L01", "L06"}
                            THEN "L01" ELSE old.root
              /\ new.status = IF /\ old.amount - doc[d].amount < Rule.threshold
                                 /\ old.status = 1
                              THEN 2 ELSE old.status
              /\ new.sales = old.sales \cup {doc[d].amount}]_vars

(* C13: an amount equal to the threshold takes the over-threshold branch  *)
(* of every threshold decision of a Creator pass: the priority key of a   *)
(* new QM notification, CS task against closing the notification, the     *)
(* closing of a new case (root cause L14, status 3), and the root cause   *)
(* and status rules of a recorded credit note.                            *)
C13_EqualCountsAsOver ==
    [][last'.op = "create" =>
         LET r == last'.rec
             d == db[r].hash
             amount == doc[d].amount
             over == amount >= Rule.threshold
             act == last'.act
             calls == last'.calls
             new == cases'[Len(cases')]
         IN  /\ (act = "create_qm" /\ InSeq("create_notification", calls))
                => notifs'[Len(notifs')].prior =
                       IF over THEN "over_threshold" ELSE "under_threshold"
             /\ (act = "create_qm" /\ last'.exc = "none")
                => /\ InSeq("create_cs_task", calls) <=> over
                   /\ InSeq("close_notification", calls) <=> ~over
             /\ (/\ act \in {"create_zqm", "create_qm", "add_case"}
                 /\ InSeq("change_attributes", calls))
                => IF over THEN new.status = 1
                   ELSE new.status = 3 /\ new.root = "L14"
             /\ (act = "record_credit" /\ InSeq("change_attributes", calls))
                => LET i == CHOOSE k \in find_cases(d, 0, FALSE) : TRUE
                   IN  /\ (/\ cases[i].amount >= Rule.threshold
                           /\ cases[i].root \notin {"L01", "L06"})
                          => cases'[i].root = "L01"
                       /\ (/\ cases[i].amount - amount >= Rule.threshold)
                          => cases'[i].status = cases[i].status]_vars

(* C14: on the add-case path every notification tried but the last is     *)
(* marked for deletion; no notification is tried twice; each retry takes  *)
(* the oldest of those not yet tried; the loop ends either at a           *)
(* notification that is not marked, to which the case is added, or when   *)
(* every candidate has been tried, and then the document fails with no    *)
(* ERP write made.                                                        *)
C14_DeletedNotificationRetry ==
    [][(last'.op = "create" /\ last'.act = "add_case" /\ last'.tried # <<>>)
       => LET t == last'.tried
              n == Len(t)
              cands == _exists_qm_notification(db[last'.rec].hash)
          IN  /\ \A i \in 1 .. n : t[i] \in cands
              /\ \A i, j \in 1 .. n : i # j => t[i] # t[j]
              /\ \A i \in 1 .. n - 1 : notifs[t[i]].dlfl
              /\ \A i \in 2 .. n :
                    t[i] = Oldest(cands \ {t[j] : j \in 1 .. i - 1})
              /\ IF notifs[t[n]].dlfl
                 THEN /\ {t[i] : i \in 1 .. n} = cands
                      /\ last'.exc = "error"
                      /\ last'.calls = <<>>
                      /\ cases' = cases
                 ELSE last'.exc = "none" => Len(cases') = Len(cases) + 1]_vars

C14_Witness ==
    /\ last.op = "create"
    /\ last.act = "add_case"
    /\ last.exc = "none"
    /\ Len(last.tried) = 2
    /\ notifs[last.tried[1]].dlfl
    /\ ~notifs[last.tried[2]].dlfl

(* C15: the search for existing cases of a debit note returns exactly the *)
(* cases with the title of the document, in status 1, 2 or 3, that have   *)
(* an attribute row and a disputed amount within the tolerance of the     *)
(* searched amount; an archived case does not keep the others from being  *)
(* judged.                                                                *)
C15_SearchJudgesEachCase ==
    \A d \in Docs :
        find_cases(d, doc[d].amount, TRUE) =
            {i \in 1 .. Len(cases) :
                /\ cases[i].title = d
                /\ cases[i].status \in {1, 2, 3}
                /\ ~cases[i].archived
                /\ cases[i].amount - doc[d].amount <= Rule.tolerance
                /\ doc[d].amount - cases[i].amount <= Rule.tolerance}

(* ----------------------- cancellation specification -------------------- *)
(* The cancel files of the control directory, by stage.                    *)
ClaimLocks ==
    [creator |-> "claim_manager", downloader |-> "claim_downloader",
     archiver |-> "claim_archiver", dispatcher |-> "claim_dispatcher",
     extractor |-> "claim_exractor"]

Stages == DOMAIN ClaimLocks

(* The most documents a run finds waiting. *)
MaxTotal == 2

(* Lock.activate: the cancel file of a stage is put in place. *)
activate(s) ==
    /\ ClaimLocks[s] \notin lock_files
    /\ lock_files' = lock_files \cup {ClaimLocks[s]}
    /\ UNCHANGED <<stage, n_left, busy, pipeVars, retryVars, callVars>>

(* A stage is started over n waiting documents; the constructor of the    *)
(* Creator removes a cancel file left in place.                            *)
StartStage(s, n) ==
    /\ stage = "none"
    /\ stage' = s
    /\ n_left' = n
    /\ busy' = FALSE
    /\ lock_files' = IF s = "creator"
                     THEN lock_files \ {ClaimLocks[s]}
                     ELSE lock_files
    /\ UNCHANGED <<pipeVars, retryVars, callVars>>

(* The stages whose main loop looks for the cancel file. *)
ChecksLock(s) == s = "creator"

(* The head of the main loop of the running stage: the loop ends, the run *)
(* is cancelled, or the next document is taken up.                         *)
LoopBoundary ==
    /\ stage # "none"
    /\ ~busy
    /\ IF n_left = 0 \/ (ChecksLock(stage) /\ ClaimLocks[stage] \in lock_files)
       THEN /\ stage' = "none"
            /\ n_left' = 0
            /\ busy' = FALSE
       ELSE /\ busy' = TRUE
            /\ n_left' = n_left - 1
            /\ stage' = stage
    /\ UNCHANGED <<lock_files, pipeVars, retryVars, callVars>>

(* The handler of the document in progress runs to its end. *)
FinishDocument ==
    /\ busy
    /\ busy' = FALSE
    /\ UNCHANGED <<lock_files, stage, n_left, pipeVars, retryVars, callVars>>

InitCancel ==
    /\ mail = [m \in MailIds |-> NoMail]
    /\ db = <<>>
    /\ files = {}
    /\ cases = <<>>
    /\ notifs = <<>>
    /\ doc = [d \in Docs |-> [tx |-> "QM", ref |-> "document",
                              bahag |-> FALSE, amount |-> 1]]
    /\ last = NoLast
    /\ NoRetry
    /\ NoRun
    /\ NoCall

NextCancel ==
    \/ \E s \in Stages : activate(s)
    \/ \E s \in Stages, n \in 0 .. MaxTotal : StartStage(s, n)
    \/ LoopBoundary
    \/ FinishDocument

SpecCancel == InitCancel /\ [][NextCancel]_vars

(* ------------------------------------------------------------------------ *)
(* C16: whichever stage is running, once its cancel file is in place the   *)
(* stage takes up no further document: the document in progress is        *)
(* finished, and the next pass through the head of the main loop ends the *)
(* run.                                                                    *)
C16_CancelStopsEveryStage ==
    [][(/\ stage # "none"
        /\ ClaimLocks[stage] \in lock_files
        /\ ~busy)
       => /\ ~busy'
          /\ (n_left' # n_left \/ stage' # stage) => stage' = "none"]_vars

(* The same for the Creator alone. *)
C16_CancelStopsCreator ==
    [][(/\ stage = "creator"
        /\ ClaimLocks[stage] \in lock_files
        /\ ~busy)
       => /\ ~busy'
          /\ (n_left' # n_left \/ stage' # stage) => stage' = "none"]_vars

(* The Creator is cancelled with documents still waiting. *)
C16_CreatorCancelled ==
    /\ stage = "creator"
    /\ ClaimLocks[stage] \in lock_files
    /\ ~busy
    /\ n_left > 0

(* ------------------------------------------------------------------------ *)
(* The documents a stage takes up when it runs: the Downloader the record *)
(* of the attachment of a message in the customer folder, the Extractor   *)
(* the PDF files of the input folder, the Creator the JSON files of the   *)
(* upload folder, the Dispatcher the records in a status of its rules.    *)
(* The Archiver fails before it scans a folder and takes up none.         *)
Selects(s, r) ==
    CASE s = "downloader" ->
           \E m \in MailIds : /\ mail[m].folder = "inbox"
                              /\ RecsWithHash(mail[m].doc) = {r}
      [] s = "extractor" -> <<"input", r, "pdf">> \in files
      [] s = "creator" -> <<"upload", r, "json">> \in files
      [] s = "dispatcher" -> db[r].status \in DOMAIN DispatchRules
      [] OTHER -> FALSE

(* C17: at no time do two stages find the same document ready for them,   *)
(* so stages running side by side never hold the same document.           *)
C17_OneStagePerDocument ==
    \A r \in 1 .. Len(db) : \A s1, s2 \in Stages :
        (Selects(s1, r) /\ Selects(s2, r)) => s1 = s2

(* The same with the Downloader left out. *)
C17_OneStagePerDocumentOnceDownloaded ==
    \A r \in 1 .. Len(db) : \A s1, s2 \in Stages \ {"downloader"} :
        (Selects(s1, r) /\ Selects(s2, r)) => s1 = s2

(* ------------------------------------------------------------------------ *)
(* C19: an Archiver run over a credit note that has waited in the upload  *)
(* folder past the retention time with no case in DMS leaves it in status *)
(* claim_case_unmatched; and a record in that status, or in the status    *)
(* the Dispatcher derives from it, is a credit note recorded on no case.  *)
C19_UnmatchedCreditNote ==
    [][/\ (/\ last'.op = "archive"
           /\ DocKind(db[last'.rec].hash) = "credit"
           /\ find_cases(db[last'.rec].hash, 0, FALSE) = {})
          => db'[last'.rec].status = "claim_case_unmatched"
       /\ \A r \in 1 .. Len(db') :
             db'[r].status \in {"claim_case_unmatched",
                                mail_states.mail_case_unmatched_moved}
             => /\ DocKind(db'[r].hash) = "credit"
                /\ db'[r].case_id = 0]_vars

(* ------------------------------------------------------------------------ *)
(* C18: a Dispatcher pass gives a record one of the mail_*_moved statuses *)
(* only when it has moved the e-mail of the record to the folder of the   *)
(* rule; when the e-mail is not found or is not moved, the status stays.  *)
C18_MovedMeansFiled ==
    [][last'.op = "dispatch" =>
         LET r == last'.rec
             m == db[r].message_id
         IN  IF /\ MessageFound(m)
                /\ mail'[m].folder = DispatchRules[db[r].status].dst_subfolder
                /\ last'.act = "moved"
             THEN db'[r].status = DispatchRules[db[r].status].new_status
             ELSE db'[r].status = db[r].status]_vars

(* ------------------------------------------------------------------------ *)
(* The lines a stage writes to an e-mail are kept by their head: a line   *)
(* "G.ROBOT_RFC (INFO): ..." by its level INFO, and so for WARNING and    *)
(* ERROR; a line with any other head by that head.                        *)
Tagged == {"INFO", "WARNING", "ERROR"}

(* C20: every pass of a stage over a document writes one line to the      *)
(* e-mail of the document, and that line is tagged G.ROBOT_RFC with the   *)
(* level INFO, WARNING or ERROR.                                          *)
C20_OneTaggedLinePerPass ==
    [][last'.op \in {"download", "extract", "create", "dispatch", "archive"}
       => /\ Len(last'.notes) = 1
          /\ last'.notes[1] \in Tagged]_vars

(* The same for the passes of the Creator alone. *)
C20_OneTaggedLinePerCreatorPass ==
    [][last'.op = "create"
       => /\ Len(last'.notes) = 1
          /\ last'.notes[1] \in Tagged]_vars

(* ------------------------- compiler specification ---------------------- *)
(* Claim._categories: the document categories of each transaction.         *)
_categories ==
    [QM |-> {"delivery", "finance", "invoice", "penalty_general",
             "penalty_delay", "penalty_quote", "price", "rebuild", "return"},
     ZQM |-> {"bonus", "promo", "quality"},
     DMS |-> {}]

_reference_by ==
    <<"invoice_number", "delivery_number", "account_number",
      "head_office_number">>

_company_codes == {"1001", "1072", "0074"}

(* A transaction that drops the quality category from ZQM. *)
_get_transaction_type_quality_as_qm(data) ==
    IF data.kind = "debit"
    THEN IF data.category \in _categories.QM \cup {"quality"} THEN "QM"
         ELSE IF data.category \in _categories.ZQM THEN "ZQM"
         ELSE "ValueError"
    ELSE IF data.kind = "credit" THEN "DMS"
    ELSE "ValueError"

(* Claim._get_transaction_type: the transaction of a document, or the     *)
(* exception raised.                                                       *)
_get_transaction_type(data) ==
    IF data.kind = "debit"
    THEN IF data.category \in _categories.QM THEN "QM"
         ELSE IF data.category \in _categories.ZQM THEN "ZQM"
         ELSE "ValueError"
    ELSE IF data.kind = "credit" THEN "DMS"
    ELSE "ValueError"

(* Claim._assign_rules: the indices of the rules of the issuer that match *)
(* the document; all rules here carry the template id of the document.    *)
_assign_rules(data, rules) ==
    {i \in 1 .. Len(rules) :
        \/ data.kind = "credit"
        \/ data.kind = "debit" /\ data.category \in rules[i].category}

(* va03.find_accounting_documents for a purchase order, an invoice or a   *)
(* delivery; found tells what the ERP holds: sales documents with their   *)
(* invoice and delivery (0 for none).                                      *)
find_accounting_documents(by, acc, found) ==
    IF found = <<>>
    THEN IF by = "PurchaseOrder" /\ acc # 0
         THEN [exc |-> "DocumentNotFoundError", recs |-> <<>>]
         ELSE IF by = "Invoice"
         THEN [exc |-> "DeliveryNotFoundError", recs |-> <<>>]
         ELSE IF by = "Delivery"
         THEN [exc |-> "InvoiceNotFoundError", recs |-> <<>>]
         ELSE [exc |-> "AssertionError", recs |-> <<>>]
    ELSE IF \E i \in 1 .. Len(found) :
                found[i].invoice = 0 /\ found[i].delivery = 0
              /\ \A k \in 1 .. i - 1 :
                     found[k].invoice # 0 /\ found[k].delivery # 0
    THEN [exc |-> "DocumentsNotFoundWarning", recs |-> <<>>]
    ELSE IF \E i \in 1 .. Len(found) :
                found[i].invoice = 0 \/ found[i].delivery = 0
    THEN [exc |-> "TypeError", recs |-> <<>>]
    ELSE [exc |-> "none", recs |-> found]

NotFound ==
    {"DocumentNotFoundError", "DeliveryNotFoundError", "InvoiceNotFoundError"}

Invoices(recs) == {recs[i].invoice : i \in 1 .. Len(recs)}
Deliveries(recs) == {recs[i].delivery : i \in 1 .. Len(recs)}

(* Claim._get_accounting_docs: the invoice and delivery numbers of the    *)
(* claim as sets (none is true for None), or the exception raised.        *)
_get_accounting_docs(params, data, acc, found) ==
    LET ok(inv, deliv) ==
            [exc |-> "none", inv_nums |-> inv, deliv_nums |-> deliv]
        fail(e) == [exc |-> e, inv_nums |-> {}, deliv_nums |-> {}]
        inv_num == data.invoice_number
        deliv_num == data.delivery_number
    IN  IF inv_num # 0 /\ deliv_num # 0
        THEN ok({inv_num}, {deliv_num})
        ELSE IF inv_num = 0 /\ deliv_num = 0
        THEN IF ~params.reference_from
             THEN ok({}, {})
             ELSE IF data.purchase_order_number = 0
             THEN fail("AssertionError")
             ELSE
               LET r == find_accounting_documents("PurchaseOrder", acc, found)
               IN  IF r.exc \in NotFound \cup {"DocumentsNotFoundWarning"}
                   THEN IF acc = 0 THEN fail("UnboundLocalError")
                        ELSE ok({}, {})
                   ELSE IF r.exc # "none" THEN fail(r.exc)
                   ELSE IF acc = 0 /\ Len(r.recs) > 1
                   THEN fail("RuntimeError")
                   ELSE ok(Invoices(r.recs), Deliveries(r.recs))
        ELSE IF inv_num = 0
        THEN LET r == find_accounting_documents("Delivery", 0, found)
             IN  IF r.exc = "InvoiceNotFoundError" THEN ok({}, {deliv_num})
                 ELSE IF r.exc # "none" THEN fail(r.exc)
                 ELSE ok(Invoices(r.recs), {deliv_num})
        ELSE LET r == find_accounting_documents("Invoice", 0, found)
             IN  IF r.exc = "DeliveryNotFoundError" THEN ok({inv_num}, {})
                 ELSE IF r.exc # "none" THEN fail(r.exc)
                 ELSE ok({inv_num}, Deliveries(r.recs))

(* The reference fields resolved on runtime, in the order of the search.  *)
available_refs ==
    <<"invoice_number", "delivery_number", "purchase_order_number",
      "account_number", "head_office_number">>

(* The elements of sq that satisfy keep, in the order of sq. *)
RECURSIVE Filter(_, _)
Filter(sq, keep) ==
    IF sq = <<>> THEN <<>>
    ELSE (IF Head(sq) \in keep THEN <<Head(sq)>> ELSE <<>>)
         \o Filter(Tail(sq), keep)

SetOf(sq) == {sq[i] : i \in 1 .. Len(sq)}

(* Claim._get_reference: the name of the reference field chosen for the   *)
(* notification, or the exception raised.  val is the reference_by option *)
(* of the rule: a static account number or a list of field names; have    *)
(* holds the reference fields of the claim, which all carry a value.      *)
_get_reference(val, tr_type, have) ==
    LET used_valid_refs == Filter(available_refs, have \cap SetOf(val.names))
        unused_valid_refs == Filter(available_refs, have \ SetOf(val.names))
    IN  IF tr_type \notin {"QM", "ZQM"}
        THEN [exc |-> "AssertionError", name |-> "", why |-> ""]
        ELSE IF val.static # 0
        THEN [exc |-> "none", name |-> "account_number", why |-> ""]
        ELSE IF /\ tr_type = "ZQM"
                /\ ~(/\ Len(val.names) = 1
                     /\ val.names[1] \in {"head_office_number",
                                          "account_number"})
        THEN [exc |-> "ValueError", name |-> "", why |-> ""]
        ELSE IF have = {}
        THEN [exc |-> "RuntimeWarning", name |-> "", why |-> "no_value"]
        ELSE IF used_valid_refs = <<>> /\ unused_valid_refs # <<>>
        THEN [exc |-> "RuntimeError", name |-> "", why |-> "others_valid"]
        ELSE IF used_valid_refs = <<>>
        THEN [exc |-> "RuntimeError", name |-> "", why |-> "none_valid"]
        ELSE [exc |-> "none", name |-> used_valid_refs[1], why |-> ""]

(* What a compilation gives back when it raises e. *)
Raised(e) ==
    [fn |-> "compile", exc |-> e, transaction |-> "", kind |-> "",
     category |-> "", company_code |-> "", threshold |-> 0, tolerance |-> 0,
     title |-> "", description |-> "", reference_by |-> "",
     inv_nums |-> {}, deliv_nums |-> {}]

(* Claim._compile: the claim compiled from the data of a document g, the  *)
(* rules of its issuer, the accounts of the account map and what the ERP  *)
(* holds; or the exception raised.                                         *)
_compile(g) ==
    LET matched == _assign_rules(g, g.rules)
        rule == g.rules[CHOOSE i \in matched : TRUE]
        tr_type == _get_transaction_type(g)
        docs == _get_accounting_docs(rule, g, g.acc, g.found)
        have == (IF docs.inv_nums # {} THEN {"invoice_number"} ELSE {}) \cup
                (IF docs.deliv_nums # {} THEN {"delivery_number"} ELSE {}) \cup
                (IF g.acc # 0 THEN {"account_number"} ELSE {}) \cup
                (IF g.hoff # 0 THEN {"head_office_number"} ELSE {})
        ref == _get_reference(rule.reference_by, tr_type, have)
        reference_by == IF ref.exc = "RuntimeWarning" THEN rule.before
                        ELSE ref.name
        claim == [fn |-> "compile", exc |-> "none", transaction |-> tr_type,
                  kind |-> g.kind, category |-> g.category,
                  company_code |-> rule.company_code,
                  threshold |-> rule.threshold, tolerance |-> rule.tolerance,
                  title |-> rule.title,
                  description |-> IF rule.claim_create THEN rule.description
                                  ELSE "",
                  reference_by |-> IF rule.claim_create THEN reference_by
                                   ELSE "",
                  inv_nums |-> IF rule.claim_create THEN docs.inv_nums
                               ELSE {},
                  deliv_nums |-> IF rule.claim_create THEN docs.deliv_nums
                                 ELSE {}]
    IN  IF Cardinality(matched) # 1 THEN Raised("RuntimeError")
        ELSE IF tr_type = "ValueError" THEN Raised("ValueError")
        ELSE IF rule.claim_create /\ docs.exc # "none" THEN Raised(docs.exc)
        ELSE IF rule.claim_create /\ ref.exc \notin {"none", "RuntimeWarning"}
        THEN Raised(ref.exc)
        ELSE IF /\ rule.claim_create /\ ref.exc = "RuntimeWarning"
                /\ rule.before = "unbound"
        THEN Raised("UnboundLocalError")
        ELSE IF \/ claim.company_code \notin _company_codes
                \/ claim.threshold < 0
                \/ claim.tolerance < 0
                \/ claim.kind \notin {"debit", "credit"}
                \/ claim.category \notin
                       {"None"} \cup _categories.QM \cup _categories.ZQM
                \/ claim.title = ""
                \/ rule.claim_create /\
                     (\/ claim.reference_by \notin SetOf(_reference_by)
                      \/ claim.description = "")
        THEN Raised("AssertionError")
        ELSE claim

(* The documents, rules, accounts and ERP contents the compiler is tried  *)
(* on.  A sales document of the ERP with its invoice and delivery.        *)
SalesDoc(inv, deliv) == [invoice |-> inv, delivery |-> deliv]

Found ==
    {<<>>, <<SalesDoc(5, 6)>>, <<SalesDoc(5, 6), SalesDoc(7, 8)>>,
     <<SalesDoc(0, 0)>>, <<SalesDoc(5, 0)>>}

RefBy(n, names) == [static |-> n, names |-> names]

ReferenceBys ==
    {RefBy(0, <<"invoice_number">>),
     RefBy(0, <<"delivery_number", "invoice_number">>),
     RefBy(0, <<"account_number">>),
     RefBy(0, <<"head_office_number", "account_number">>),
     RefBy(7, <<>>)}

Headers ==
    {[company_code |-> "1001", threshold |-> 2, title |-> "T"],
     [company_code |-> "9999", threshold |-> 2, title |-> "T"],
     [company_code |-> "1072", threshold |-> 0 - 1, title |-> "T"],
     [company_code |-> "0074", threshold |-> 0, title |-> ""]}

Kinds == {"debit", "credit", "other"}

AllCategories ==
    _categories.QM \cup _categories.ZQM \cup {"None", "unknown"}

SomeCategories == {"price", "quality", "None", "unknown"}

Knobs ==
    [kind : Kinds, category : SomeCategories, inv : {0, 5}, deliv : {0, 6},
     acc : {0, 3}, hoff : {0, 4}, found : Found,
     reference_by : ReferenceBys, reference_from : BOOLEAN,
     header : Headers, before : {"unbound", "None"}]

(* The rule written for the template and category of the document; a      *)
(* rule of a debit note has the rule sets to create a notification.       *)
RuleOf(k) ==
    [category |-> {k.category}, company_code |-> k.header.company_code,
     threshold |-> k.header.threshold, tolerance |-> 1,
     title |-> k.header.title, description |-> "D",
     claim_create |-> k.kind = "debit", reference_by |-> k.reference_by,
     reference_from |-> k.reference_from, before |-> k.before]

CompileInput(k, n) ==
    [fn |-> "compile", kind |-> k.kind, category |-> k.category,
     invoice_number |-> k.inv, delivery_number |-> k.deliv,
     purchase_order_number |-> IF k.reference_from THEN 9 ELSE 0,
     acc |-> k.acc, hoff |-> k.hoff, found |-> k.found,
     rules |-> [i \in 1 .. n |-> RuleOf(k)]]

PlainKnobs ==
    {k \in Knobs : /\ k.header.company_code = "1001" /\ k.found = <<>>
                   /\ k.before = "None" /\ ~k.reference_from}

CompileInputs ==
    {CompileInput(k, 1) : k \in Knobs} \cup
    {CompileInput(k, n) : k \in PlainKnobs, n \in {0, 2}}

TransactionInputs ==
    [fn : {"_get_transaction_type"}, kind : Kinds, category : AllCategories]

ReferenceInputs ==
    [fn : {"_get_reference"}, val : ReferenceBys, tr_type : {"QM", "ZQM", "DMS"},
     have : SUBSET (SetOf(_reference_by))]

DocsInputs ==
    [fn : {"_get_accounting_docs"}, invoice_number : {0, 5},
     delivery_number : {0, 6}, purchase_order_number : {0, 9},
     reference_from : BOOLEAN, acc : {0, 3}, found : Found]

(* Claim(data, rules, acc_maps): the claim is compiled. *)
Compile ==
    /\ given.fn = "compile"
    /\ got.fn = "none"
    /\ got' = _compile(given)
    /\ UNCHANGED <<given, pipeVars, retryVars, runVars>>

TransactionType ==
    /\ given.fn = "_get_transaction_type"
    /\ got.fn = "none"
    /\ got' = [fn |-> given.fn, transaction |-> _get_transaction_type(given)]
    /\ UNCHANGED <<given, pipeVars, retryVars, runVars>>

GetReference ==
    /\ given.fn = "_get_reference"
    /\ got.fn = "none"
    /\ got' = _get_reference(given.val, given.tr_type, given.have)
                 @@ [fn |-> given.fn]
    /\ UNCHANGED <<given, pipeVars, retryVars, runVars>>

GetAccountingDocs ==
    /\ given.fn = "_get_accounting_docs"
    /\ got.fn = "none"
    /\ got' = _get_accounting_docs(given, given, given.acc, given.found)
                 @@ [fn |-> given.fn]
    /\ UNCHANGED <<given, pipeVars, retryVars, runVars>>

InitCompile ==
    /\ mail = [m \in MailIds |-> NoMail]
    /\ db = <<>>
    /\ files = {}
    /\ cases = <<>>
    /\ notifs = <<>>
    /\ doc = [d \in Docs |-> [tx |-> "QM", ref |-> "document",
                              bahag |-> FALSE, amount |-> 1]]
    /\ last = NoLast
    /\ NoRetry
    /\ NoRun
    /\ given \in CompileInputs \cup TransactionInputs \cup ReferenceInputs
                 \cup DocsInputs
    /\ got = [fn |-> "none"]

NextCompile ==
    \/ Compile
    \/ TransactionType
    \/ GetReference
    \/ GetAccountingDocs

SpecCompile == InitCompile /\ [][NextCompile]_vars

(* ------------------------------------------------------------------------ *)
(* C21: a claim that compiles has transaction QM, ZQM or DMS; it is DMS   *)
(* exactly for a credit note; a debit note is ZQM exactly for the         *)
(* categories bonus, promo and quality and QM otherwise.  The same holds  *)
(* for the transaction _get_transaction_type gives on its own.            *)
C21_TransactionOfKind ==
    /\ (got.fn = "compile" /\ got.exc = "none") =>
          /\ got.transaction \in {"QM", "ZQM", "DMS"}
          /\ got.transaction = "DMS" <=> given.kind = "credit"
          /\ given.kind = "debit" =>
                (got.transaction = "ZQM"
                    <=> given.category \in {"bonus", "promo", "quality"})
    /\ (got.fn = "_get_transaction_type" /\ got.transaction # "ValueError") =>
          /\ got.transaction \in {"QM", "ZQM", "DMS"}
          /\ got.transaction = "DMS" <=> given.kind = "credit"
          /\ given.kind = "debit" =>
                (got.transaction = "ZQM"
                    <=> given.category \in {"bonus", "promo", "quality"})

(* A debit note of category quality has compiled. *)
C21_Witness ==
    /\ got.fn = "compile"
    /\ got.exc = "none"
    /\ given.kind = "debit"
    /\ given.category = "quality"
    /\ got.transaction = "ZQM"

(* ------------------------------------------------------------------------ *)
(* C22: for a QM claim whose rule lists reference fields, the field        *)
(* chosen is the first of the list that has a value; when no field of the *)
(* list has a value, the choice fails with an error that tells a rule     *)
(* that leaves out fields with a value from a claim with no value at all. *)
C22_FirstListedReference ==
    (/\ got.fn = "_get_reference"
     /\ given.tr_type = "QM"
     /\ given.val.static = 0)
    => IF Filter(given.val.names, given.have) # <<>>
       THEN /\ got.exc = "none"
            /\ got.name = Head(Filter(given.val.names, given.have))
       ELSE /\ got.exc = "RuntimeError"
            /\ got.why = IF given.have # {} THEN "others_valid"
                         ELSE "none_valid"

(* The first half alone: the field chosen when a listed field has a value. *)
C22_ChoiceFollowsRuleOrder ==
    (/\ got.fn = "_get_reference"
     /\ given.tr_type = "QM"
     /\ given.val.static = 0
     /\ Filter(given.val.names, given.have) # <<>>)
    => /\ got.exc = "none"
       /\ got.name = Head(Filter(given.val.names, given.have))

(* ------------------------------------------------------------------------ *)
(* The call looks the accounting documents up in the ERP: by the purchase *)
(* order when the data hold neither number, else by the number they hold. *)
LooksUp(g) ==
    \/ g.invoice_number = 0 /\ g.delivery_number # 0
    \/ g.invoice_number # 0 /\ g.delivery_number = 0
    \/ /\ g.invoice_number = 0 /\ g.delivery_number = 0
       /\ g.reference_from /\ g.purchase_order_number # 0

ByPurchaseOrder(g) == g.invoice_number = 0 /\ g.delivery_number = 0

(* The ERP holds no sales document, or none with an invoice or delivery.  *)
NothingFound(found) ==
    \A i \in 1 .. Len(found) : found[i].invoice = 0 /\ found[i].delivery = 0

(* C23: a lookup of the accounting documents that finds nothing raises    *)
(* nothing, and the numbers not found are left empty; the lookup raises   *)
(* an error when several sales documents match a purchase order and no    *)
(* account narrows the search.                                            *)
C23_NotFoundIsTolerated ==
    (got.fn = "_get_accounting_docs" /\ LooksUp(given)) =>
       /\ (ByPurchaseOrder(given) /\ given.acc = 0 /\ Len(given.found) > 1)
             => got.exc = "RuntimeError"
       /\ NothingFound(given.found) =>
             /\ got.exc = "none"
             /\ given.invoice_number = 0 => got.inv_nums = {}
             /\ given.delivery_number = 0 => got.deliv_nums = {}

(* The same for the lookups that an account narrows, or that go by an     *)
(* invoice or delivery number, when the ERP holds no sales document.      *)
C23_NoSalesDocumentIsTolerated ==
    (/\ got.fn = "_get_accounting_docs" /\ LooksUp(given)
     /\ given.found = <<>>
     /\ ByPurchaseOrder(given) => given.acc # 0) =>
       /\ got.exc = "none"
       /\ given.invoice_number = 0 => got.inv_nums = {}
       /\ given.delivery_number = 0 => got.deliv_nums = {}

(* ------------------------------------------------------------------------ *)
(* The one rule of a compilation that has exactly one matching rule.      *)
TheRule(g) == g.rules[CHOOSE i \in _assign_rules(g, g.rules) : TRUE]

(* The data, the accounts and the ERP give the claim no reference value.  *)
NoReferenceValue(g) ==
    /\ g.invoice_number = 0 /\ g.delivery_number = 0
    /\ g.acc = 0 /\ g.hoff = 0
    /\ ~LooksUp(g @@ [reference_from |-> TheRule(g).reference_from])

(* Everything of the rule but the reference passes the validation.        *)
ValidButReference(g) ==
    /\ Cardinality(_assign_rules(g, g.rules)) = 1
    /\ _get_transaction_type(g) \in {"QM", "ZQM"}
    /\ TheRule(g).claim_create
    /\ TheRule(g).reference_by.static = 0
    /\ TheRule(g).company_code \in _company_codes
    /\ TheRule(g).threshold >= 0 /\ TheRule(g).tolerance >= 0
    /\ TheRule(g).title # "" /\ TheRule(g).description # ""

(* A compiled claim passed the validation of its parameters.              *)
C24_CompiledClaimIsValid ==
    (got.fn = "compile" /\ got.exc = "none") =>
       /\ got.company_code \in _company_codes
       /\ got.threshold >= 0 /\ got.tolerance >= 0
       /\ got.title # ""
       /\ got.transaction \in {"QM", "ZQM"} =>
             /\ got.description # ""
             /\ got.reference_by \in SetOf(_reference_by)

C24_ValidWitness ==
    /\ got.fn = "compile" /\ got.exc = "none"
    /\ got.transaction = "QM" /\ got.reference_by = "account_number"

(* C24: every compiled claim has a company code of 1001, 1072 or 0074, a  *)
(* threshold and a tolerance of at least 0, a title, and for QM and ZQM a *)
(* description and a reference; a claim that has no reference value       *)
(* compiles all the same, with no reference.                              *)
C24_CompilesWithoutReference ==
    /\ C24_CompiledClaimIsValid
    /\ (/\ got.fn = "compile"
        /\ ValidButReference(given) /\ NoReferenceValue(given))
          => got.exc = "none"

(* ------------------------------------------------------------------------ *)
(* The extractor.  The text of a document is held by what the patterns of *)
(* the templates find in it: the keywords, the amount, and the item rows  *)
(* of a return (pieces, net, tax rate, tax, gross) and of a penalty note  *)
(* (penalty, purchase order, amount of the order).                        *)

(* Template.matches_keywords *)
matches_keywords(tmpl, text) ==
    /\ tmpl.inclusive_keywords \subseteq text.words
    /\ tmpl.exclusive_keywords \cap text.words = {}

(* Template._match_patterns for the pattern of the field items. *)
_match_patterns(text, regex) ==
    CASE regex = "returns" -> text.returns
      [] regex = "penalties" -> text.penalties
      [] OTHER -> <<>>

(* get_template: the parser a template is given for its issuer and id.   *)
ParserOf(tmpl) ==
    CASE tmpl.issuer = "ROLLER_DE" /\ tmpl.template_id = "171001DE001"
            -> "RollerParser._parse_return"
      [] tmpl.issuer = "OBI_DE" /\ tmpl.template_id = "161001DE001"
            -> "ObiParser._parse_penalty"
      [] OTHER -> "Parser"

(* What parse_items gives: an exception, None (dropped), or the items.    *)
Parsed(exc, dropped, items) ==
    [exc |-> exc, dropped |-> dropped, items |-> items]

(* RollerParser._parse_return *)
RollerParser_parse_return(items, amount) ==
    LET n == Len(items)
        items_amount == IF n = 0 THEN 0 ELSE items[n][2] + items[n][4]
    IN  IF \E i \in 1 .. n : \/ items[i][1] <= 0
                             \/ items[i][3] \notin {19, 0}
                             \/ items[i][5] <= 0
        THEN Parsed("ValueError", FALSE, <<>>)
        ELSE IF items_amount # amount THEN Parsed("none", TRUE, <<>>)
        ELSE Parsed("none", FALSE, items)

RECURSIVE SumOfPenalties(_)
SumOfPenalties(items) ==
    IF items = <<>> THEN 0 ELSE Head(items)[1] + SumOfPenalties(Tail(items))

(* ObiParser._parse_penalty *)
ObiParser_parse_penalty(items, amount) ==
    LET n == Len(items)
        calc_rate(i) == (items[i][1] * 100) \div items[i][3]
        stops(i) == items[i][3] = 0 \/ calc_rate(i) \notin {2, 25}
        first == CHOOSE i \in 1 .. n :
                    stops(i) /\ \A j \in 1 .. i - 1 : ~stops(j)
    IN  IF \E i \in 1 .. n : stops(i)
        THEN IF items[first][3] = 0
             THEN Parsed("ZeroDivisionError", FALSE, <<>>)
             ELSE Parsed("none", TRUE, <<>>)
        ELSE IF SumOfPenalties(items) # amount THEN Parsed("none", TRUE, <<>>)
        ELSE Parsed("none", FALSE, items)

(* What the extraction of one document gives: the template that matched, *)
(* the exception raised, and the items of the data.                      *)
Extracted(selected, exc, dropped, items) ==
    [fn |-> "_extract_data", selected |-> selected, exc |-> exc,
     dropped |-> dropped, items |-> items]

(* Template.extract, for the fields amount and items. *)
extract(tmpl, text) ==
    LET result == _match_patterns(text, tmpl.items)
        parsed ==
            CASE ParserOf(tmpl) = "RollerParser._parse_return"
                    -> RollerParser_parse_return(result, text.amount)
              [] ParserOf(tmpl) = "ObiParser._parse_penalty"
                    -> ObiParser_parse_penalty(result, text.amount)
              [] OTHER -> Parsed("none", FALSE, result)
        id == tmpl.template_id
    IN  IF text.amount <= 0 THEN Extracted(id, "ValueError", FALSE, <<>>)
        ELSE IF result = <<>>
             THEN IF tmpl.items = "none" \/ tmpl.items_optional
                  THEN Extracted(id, "none", FALSE, <<>>)
                  ELSE Extracted(id, "PatternMatchError", FALSE, <<>>)
        ELSE Extracted(id, parsed.exc, parsed.dropped, parsed.items)

(* Extractor._extract_data *)
_extract_data(text, templates) ==
    LET matching == {i \in 1 .. Len(templates) :
                        matches_keywords(templates[i], text)}
        first == CHOOSE i \in matching : \A j \in matching : i <= j
    IN  IF matching = {}
        THEN Extracted("none", "TemplateNotFoundError", FALSE, <<>>)
        ELSE extract(templates[first], text)

(* Extractor.run: the status the record of the document is given. *)
doc_status(r) == IF r.exc = "none" THEN "extracted" ELSE "extraction_error"

(* The templates and texts the extractor is tried on. *)
RollerReturn ==
    [issuer |-> "ROLLER_DE", template_id |-> "171001DE001",
     inclusive_keywords |-> {"roller"}, exclusive_keywords |-> {},
     items |-> "returns", items_optional |-> FALSE]

RollerDebit ==
    [issuer |-> "ROLLER_DE", template_id |-> "171001DE002",
     inclusive_keywords |-> {"roller", "belastung"},
     exclusive_keywords |-> {}, items |-> "none", items_optional |-> FALSE]

ObiPenalty ==
    [issuer |-> "OBI_DE", template_id |-> "161001DE001",
     inclusive_keywords |-> {"obi"}, exclusive_keywords |-> {"retoure"},
     items |-> "penalties", items_optional |-> TRUE]

ObiOther ==
    [issuer |-> "OBI_DE", template_id |-> "161001DE009",
     inclusive_keywords |-> {"obi", "retoure"}, exclusive_keywords |-> {},
     items |-> "penalties", items_optional |-> TRUE]

TemplateLists ==
    {<<>>, <<RollerReturn>>, <<RollerReturn, RollerDebit>>,
     <<RollerDebit, RollerReturn>>, <<ObiPenalty, ObiOther>>}

Words == {"roller", "belastung", "obi", "retoure"}

ReturnRows ==
    {<<>>, <<<<1, 4, 19, 1, 5>>>>, <<<<0, 4, 19, 1, 5>>>>,
     <<<<1, 4, 7, 1, 5>>>>, <<<<1, 2, 19, 1, 3>>>>,
     <<<<1, 2, 19, 1, 3>>, <<1, 4, 19, 1, 5>>>>}

PenaltyRows ==
    {<<>>, <<<<5, 9, 20>>>>, <<<<5, 9, 100>>>>, <<<<5, 9, 0>>>>,
     <<<<1, 9, 4>>>>, <<<<1, 9, 4>>, <<4, 9, 16>>>>}

Texts ==
    [words : SUBSET Words, amount : {0, 5}, returns : ReturnRows,
     penalties : PenaltyRows]

ExtractInputs ==
    [fn : {"_extract_data"}, text : Texts, templates : TemplateLists]

ExtractData ==
    /\ given.fn = "_extract_data"
    /\ got.fn = "none"
    /\ got' = _extract_data(given.text, given.templates)
    /\ UNCHANGED <<given, pipeVars, retryVars, runVars>>

InitExtract ==
    /\ mail = [m \in MailIds |-> NoMail]
    /\ db = <<>>
    /\ files = {}
    /\ cases = <<>>
    /\ notifs = <<>>
    /\ doc = [d \in Docs |-> [tx |-> "QM", ref |-> "document",
                              bahag |-> FALSE, amount |-> 1]]
    /\ last = NoLast
    /\ NoRetry
    /\ NoRun
    /\ given \in ExtractInputs
    /\ got = [fn |-> "none"]

NextExtract == ExtractData

SpecExtract == InitExtract /\ [][NextExtract]_vars

(* The templates of the list that match the text. *)
Matching(text, templates) ==
    {i \in 1 .. Len(templates) : matches_keywords(templates[i], text)}

(* C25: when more than one template of the issuer matches the text of a   *)
(* document no template is selected and the selection fails with an       *)
(* error; a template is selected only when it is the one that matches.    *)
C25_OneMatchingTemplate ==
    got.fn = "_extract_data" =>
       LET matching == Matching(given.text, given.templates)
       IN  /\ Cardinality(matching) > 1 =>
                got.selected = "none" /\ got.exc # "none"
           /\ got.selected # "none" =>
                \E i \in matching :
                   /\ matching = {i}
                   /\ got.selected = given.templates[i].template_id

(* No template is selected that does not match, and none matching means   *)
(* TemplateNotFoundError.                                                  *)
C25_SelectedTemplateMatches ==
    got.fn = "_extract_data" =>
       LET matching == Matching(given.text, given.templates)
       IN  /\ matching = {} =>
                got.selected = "none" /\ got.exc = "TemplateNotFoundError"
           /\ got.selected # "none" =>
                \E i \in matching :
                   got.selected = given.templates[i].template_id

(* The template selected for the extraction found item rows in a text     *)
(* with a valid amount.                                                   *)
ItemsFound(g) ==
    LET matching == Matching(g.text, g.templates)
    IN  /\ matching # {}
        /\ g.text.amount > 0
        /\ \E i \in matching :
              /\ \A j \in matching : i <= j
              /\ _match_patterns(g.text, g.templates[i].items) # <<>>

(* C26: whatever the item rows of a document are, the extraction raises   *)
(* no error because of them: the document is extracted, with its items    *)
(* or with the items dropped.                                             *)
C26_ItemsNeverFailExtraction ==
    (got.fn = "_extract_data" /\ ItemsFound(given)) =>
       doc_status(got) = "extracted"

(* Items that do not add up to the amount, or whose penalty rate is not   *)
(* an expected one, are dropped and the document is extracted.            *)
C26_MismatchDropsItems ==
    (got.fn = "_extract_data" /\ ItemsFound(given) /\ got.dropped) =>
       doc_status(got) = "extracted" /\ got.items = <<>>

C26_DroppedWitness ==
    got.fn = "_extract_data" /\ got.dropped /\ got.selected = "161001DE001"

(* ------------------------------------------------------------------------ *)
(* C27: a credit note recorded against a case with no root cause asked    *)
(* (root_cause_code None) leaves the root cause of the case as it was,    *)
(* also when the same update raises the status of the case to 2.          *)
C27_NoRootCauseNoWrite ==
    [][(last'.op = "create" /\ last'.act = "record_credit")
       => LET d == db[last'.rec].hash
              i == CHOOSE k \in find_cases(d, 0, FALSE) : TRUE
              kw == CreditParams(cases[i], doc[d].amount)
          IN  kw.root = "None" => cases'[i].root = cases[i].root]_vars

(* The same for the updates that leave the status of the case alone.      *)
C27_NoWriteWithoutStatusChange ==
    [][(last'.op = "create" /\ last'.act = "record_credit")
       => LET d == db[last'.rec].hash
              i == CHOOSE k \in find_cases(d, 0, FALSE) : TRUE
              kw == CreditParams(cases[i], doc[d].amount)
          IN  (kw.root = "None" /\ kw.status = 0)
                 => cases'[i].root = cases[i].root]_vars

(* ------------------------------------------------------------------------ *)
(* The Creator adds a case for record r and exactly one notification, not *)
(* marked for deletion, matches the claim.                                *)
OneNotificationMatches(r) ==
    LET found == _exists_qm_notification(db[r].hash)
    IN  /\ Cardinality(found) = 1
        /\ \A n \in found : ~notifs[n].dlfl

(* C28: when exactly one notification matches the claim and no case       *)
(* exists, the case is added to that notification whatever the            *)
(* duplicates setting is.                                                 *)
C28_OneNotificationAnyPolicy ==
    [][(/\ last'.op = "create" /\ last'.act = "add_case"
        /\ OneNotificationMatches(last'.rec))
       => \E n \in _exists_qm_notification(db[last'.rec].hash) :
             /\ last'.tried = <<n>>
             /\ InSeq("post_dispute", last'.calls)]_vars

(* With one matching notification the case is added to it, or the add is  *)
(* refused with an error before any ERP call.                             *)
C28_AddedOrRefused ==
    [][(/\ last'.op = "create" /\ last'.act = "add_case"
        /\ OneNotificationMatches(last'.rec))
       => \/ \E n \in _exists_qm_notification(db[last'.rec].hash) :
                last'.tried = <<n>>
          \/ /\ last'.tried = <<>> /\ last'.calls = <<>>
             /\ last'.exc = "error" /\ cases' = cases]_vars

(* ------------------------------------------------------------------------ *)
(* The pass of the Creator has created a notification or a case, or has   *)
(* written to a case, in the ERP.                                         *)
ErpEffect == cases' # cases \/ notifs' # notifs

(* C29: a pass of the Creator that has created a notification or a case   *)
(* or recorded a credit in the ERP leaves the record of the document      *)
(* completed with the id of the case stored, also when the attachment or  *)
(* the move of the files fails; and a record that holds a case id is not  *)
(* made a duplicate by a later pass.                                      *)
C29_ErpEffectMeansCompleted ==
    [][last'.op = "create" =>
         /\ ErpEffect => /\ db'[last'.rec].status = "completed"
                         /\ db'[last'.rec].case_id # 0
         /\ db[last'.rec].case_id # 0
               => db'[last'.rec].status # "duplicate"]_vars

(* When no call fails and the files are moved the record is completed     *)
(* and holds the case id.                                                 *)
C29_CompletedWhenNothingFails ==
    [][(/\ last'.op = "create" /\ ErpEffect
        /\ last'.exc = "none" /\ last'.moved)
       => /\ db'[last'.rec].status = "completed"
          /\ db'[last'.rec].case_id # 0]_vars

(* ------------------------------------------------------------------------ *)
(* The run of the Creator over the JSON files of the upload folder, with  *)
(* what may go wrong for a document: its record or its e-mail is not      *)
(* found, the claim does not compile, the ERP raises a warning or an      *)
(* error, the files cannot be moved, the note cannot be saved in the      *)
(* e-mail.                                                                *)
Bodies == {"ok", "compile_error", "erp_warning", "erp_error"}

(* The exception that leaves the loop body of ClaimManager.execute: the   *)
(* record is read and the e-mail annotated outside every handler.         *)
Escapes(recOk, msgOk, saveOk) ==
    IF ~recOk THEN "KeyError"
    ELSE IF ~msgOk THEN "AttributeError"
    ELSE IF ~saveOk THEN "save_error"
    ELSE "none"

(* The body of the loop of ClaimManager.execute for the document taken    *)
(* up: an exception that escapes it ends the run.                         *)
HandleDocument(recOk, msgOk, saveOk, body, moveOk) ==
    /\ stage = "creator"
    /\ busy
    /\ busy' = FALSE
    /\ stage' = IF Escapes(recOk, msgOk, saveOk) # "none" THEN "none"
                ELSE stage
    /\ last' = [NoLast EXCEPT
                  !.op = "execute",
                  !.act = IF recOk THEN body ELSE "none",
                  !.exc = Escapes(recOk, msgOk, saveOk),
                  !.moved = recOk /\ body # "erp_warning" /\ moveOk,
                  !.notes = IF Escapes(recOk, msgOk, saveOk) # "none"
                            THEN <<>>
                            ELSE IF body = "ok" THEN <<"INFO">>
                            ELSE IF body = "erp_warning" THEN <<"WARNING">>
                            ELSE <<"ERROR">>]
    /\ UNCHANGED <<lock_files, n_left, mail, db, files, cases, notifs, doc,
                   retryVars, callVars>>

InitExecute ==
    /\ mail = [m \in MailIds |-> NoMail]
    /\ db = <<>>
    /\ files = {}
    /\ cases = <<>>
    /\ notifs = <<>>
    /\ doc = [d \in Docs |-> [tx |-> "QM", ref |-> "document",
                              bahag |-> FALSE, amount |-> 1]]
    /\ last = NoLast
    /\ NoRetry
    /\ NoRun
    /\ NoCall

NextExecute ==
    \/ activate("creator")
    \/ \E n \in 0 .. MaxTotal : StartStage("creator", n)
    \/ LoopBoundary
    \/ \E recOk, msgOk, saveOk, moveOk \in BOOLEAN, body \in Bodies :
          HandleDocument(recOk, msgOk, saveOk, body, moveOk)

SpecExecute == InitExecute /\ [][NextExecute]_vars

(* C30: the run of the Creator ends with documents left in the upload     *)
(* folder only when a cancel was requested: no failure of the handling    *)
(* of a document ends it.                                                 *)
C30_FailureNeverEndsRun ==
    [][(stage = "creator" /\ stage' = "none" /\ n_left > 0)
       => ClaimLocks.creator \in lock_files]_vars

(* A claim that does not compile, an ERP warning or error and a failed    *)
(* move of the files leave the run going.                                 *)
C30_HandledFailuresGoOn ==
    [][(/\ stage = "creator" /\ busy
        /\ last'.op = "execute" /\ last'.exc = "none")
       => stage' = "creator" /\ n_left' = n_left]_vars

====
